---- MODULE Spec2Model ----
(***************************************************************************)
(* A model of MinBinaryHeap<T> (src/src/lib.rs): a min-priority queue kept *)
(* as a binary heap in a Vec<T>.  T is any type with a total order (Ord).  *)
(* An element is modelled as the Job of the crate's example: a record of a *)
(* key, which alone decides the order, and an id, which tells apart two    *)
(* elements that compare equal.  Keys are 1..MaxVal; the id of an element  *)
(* is the number of the insert call that brought it.                       *)
(*                                                                         *)
(* Array indices are 0-based as in the source; the Vec is a TLA+ sequence, *)
(* so position i of the Vec is t[i + 1] (operator At).                     *)
(*                                                                         *)
(* An Option<T> is a sequence of length at most one: None is <<>>,         *)
(* Some(x) is <<x>>.                                                       *)
(*                                                                         *)
(* An index is a usize, modelled as a machine word of WordBits bits (the    *)
(* arithmetic is that of any word width; the lengths of the model stay     *)
(* below the word).  An overflowing operation panics in a build with       *)
(* overflow checks and wraps in a build without: where it can happen the   *)
(* model takes either outcome.                                             *)
(*                                                                         *)
(* One call of insert or extract_min is a run of steps: the step that      *)
(* enters the method (up to the head of its loop) and then one step per    *)
(* evaluation of the loop condition together with the loop body.  pc tells *)
(* where the running call stands; no other call can start before the       *)
(* running one has returned (the methods take &mut self).                  *)
(***************************************************************************)
EXTENDS Integers, Sequences, FiniteSets, Bags, TLC

\* Largest key: the keys of the elements are 1..MaxVal.
MaxVal == 3
\* Largest number of insert and extract_min calls in a behaviour of Spec.
MaxOps == 7
\* Largest number of elements inserted in a behaviour of SortSpec.
MaxSortLen == 7
\* Largest number of insert and extract_min calls in a behaviour of FairSpec.
MaxFairOps == 6
\* Number of bits of the modelled usize.
WordBits == 5
\* Largest number of insert and extract_min calls in a behaviour of HelperSpec.
MaxHelperOps == 4

Values == 1..MaxVal

\* The number of values of a usize: usize::MAX + 1.
Word == 2 ^ WordBits

\* The usize values.
Usize == 0..(Word - 1)

VARIABLES
    tree,           \* self.tree: Vec<T>
    pc,             \* "idle" | "sift_up" | "sift_down" | "panicked"
    current_index,  \* local current_index of the running call (0 outside a loop)
    parent_idx,     \* local parent_index of insert (0 outside its loop)
    child_idx,      \* local child_index_min of extract_min (0 outside its loop)
    minimum,        \* local minimum of extract_min, an Option (None outside)
    \* History of the calls, read by the properties only:
    op,             \* the latest call: "new", "insert", "extract_min", "size",
                    \* "parent_index", "child_index_min"
    arg,            \* its argument, an Option
    pre,            \* self.tree when it was called
    ret,            \* its return value once it has returned, an Option
    swaps,          \* the number of self.tree.swap calls of its loop so far
    inserted,       \* bag of all arguments of insert so far
    returned        \* the return values of the extract_min calls, in order

locals == <<current_index, parent_idx, child_idx, minimum>>
history == <<op, arg, pre, ret, swaps, inserted, returned>>
vars == <<tree, pc, current_index, parent_idx, child_idx, minimum,
          op, arg, pre, ret, swaps, inserted, returned>>

----------------------------------------------------------------------------
\* Ord::cmp of the element type: by key alone.
cmp(a, b) ==
    IF a.key < b.key THEN "Less"
    ELSE IF a.key = b.key THEN "Equal"
    ELSE "Greater"

\* The operators <, > and <= that Ord gives the element type.
lt(a, b) == cmp(a, b) = "Less"
gt(a, b) == cmp(a, b) = "Greater"
le(a, b) == cmp(a, b) # "Greater"

\* Option<T>
None == <<>>
Some(x) == <<x>>

\* Element at 0-based position i of Vec t.
At(t, i) == t[i + 1]

\* Whether i is a position of Vec t: indexing and Vec::swap panic otherwise.
InBounds(t, i) == i >= 0 /\ i < Len(t)

\* A swap that copies b over a and leaves b as it was.
swap_copies(t, a, b) == [t EXCEPT ![a + 1] = t[b + 1]]

\* Vec::swap(a, b)
swap(t, a, b) == [t EXCEPT ![a + 1] = t[b + 1], ![b + 1] = t[a + 1]]

\* Vec::pop: the Vec it leaves (an empty Vec stays empty).
pop(t) == IF t = <<>> THEN t ELSE SubSeq(t, 1, Len(t) - 1)

\* Vec::pop: the Option it returns, None on an empty Vec; unwrap panics on None.
popped(t) == IF t = <<>> THEN None ELSE Some(t[Len(t)])

\* MinBinaryHeap::new
new == <<>>

\* MinBinaryHeap::size
size(t) == Len(t)

\* A parent_index that halves the index, whatever its parity.
parent_index_halved(t, of_index) ==
    IF of_index < 1 \/ of_index >= Len(t)
    THEN [panic |-> TRUE, val |-> 0]
    ELSE [panic |-> FALSE, val |-> of_index \div 2]

\* A parent_index whose range check lets of_index = size through.
parent_index_lax(t, of_index) ==
    IF of_index < 1 \/ of_index > Len(t)
    THEN [panic |-> TRUE, val |-> 0]
    ELSE [panic |-> FALSE, val |-> (of_index - 1) \div 2]

\* A parent_index that gives the index before, as in a sorted list.
parent_index_previous(t, of_index) ==
    IF of_index < 1 \/ of_index >= Len(t)
    THEN [panic |-> TRUE, val |-> 0]
    ELSE [panic |-> FALSE, val |-> of_index - 1]

\* MinBinaryHeap::parent_index: panics if of_index < 1 or of_index >= size.
\* The subtractions are those of usize: val is what wrapping gives.
parent_index(t, of_index) ==
    IF of_index < 1 \/ of_index >= size(t)
    THEN [panic |-> TRUE, val |-> 0]
    ELSE IF of_index % 2 = 0
         THEN [panic |-> FALSE, val |-> ((of_index - 2) % Word) \div 2]
         ELSE [panic |-> FALSE, val |-> ((of_index - 1) % Word) \div 2]

\* Whether the subtraction parent_index makes past its range check
\* overflows (goes below zero).
parent_index_overflows(of_index) ==
    IF of_index % 2 = 0 THEN of_index < 2 ELSE of_index < 1

\* Whether a call of parent_index panics, in a build with or without
\* overflow checks.
parent_index_aborts(t, of_index, overflow_checks) ==
    \/ parent_index(t, of_index).panic
    \/ overflow_checks /\ parent_index_overflows(of_index)

\* A child_index_min that looks at the left child only.
child_index_min_left_only(t, of_index) ==
    IF 2 * of_index + 1 < Len(t) THEN Some(2 * of_index + 1) ELSE None

\* A child_index_min that gives the left child when the children are equal.
child_index_min_ties_left(t, of_index) ==
    IF 2 * of_index + 1 < Len(t)
    THEN IF 2 * of_index + 2 < Len(t)
         THEN IF le(At(t, 2 * of_index + 1), At(t, 2 * of_index + 2))
              THEN Some(2 * of_index + 1)
              ELSE Some(2 * of_index + 2)
         ELSE Some(2 * of_index + 1)
    ELSE None

\* MinBinaryHeap::child_index_min.  The products and sums are those of
\* usize: the indices are what wrapping gives.
child_index_min(t, of_index) ==
    LET left_child_index == (2 * of_index + 1) % Word
        right_child_index == (2 * of_index + 2) % Word
    IN IF left_child_index < Len(t)
       THEN IF right_child_index < Len(t)
            THEN IF lt(At(t, left_child_index), At(t, right_child_index))
                 THEN Some(left_child_index)
                 ELSE Some(right_child_index)
            ELSE Some(left_child_index)
       ELSE None

\* Whether 2 * of_index, 2 * of_index + 1 or 2 * of_index + 2 overflows.
child_index_min_overflows(of_index) == 2 * of_index + 2 >= Word

\* Whether a call of child_index_min panics, in a build with or without
\* overflow checks.
child_index_min_aborts(of_index, overflow_checks) ==
    overflow_checks /\ child_index_min_overflows(of_index)

\* A sift-up condition that also holds of equal nodes.
sift_up_test_not_strict(t, current, parent) == le(At(t, current), At(t, parent))

\* The condition of insert's sift-up loop: the node at current is strictly
\* less than the node at parent.
sift_up_test(t, current, parent) == lt(At(t, current), At(t, parent))

\* A sift-down condition that compares the wrong way round.
sift_down_test_reversed(t, current, child) == lt(At(t, current), At(t, child))

\* The condition of extract_min's sift-down loop: the node at current is
\* strictly greater than the node at child.
sift_down_test(t, current, child) == gt(At(t, current), At(t, child))

----------------------------------------------------------------------------
\* The call has returned r: the locals go out of scope.
Return(r) ==
    /\ pc' = "idle"
    /\ current_index' = 0
    /\ parent_idx' = 0
    /\ child_idx' = 0
    /\ minimum' = None
    /\ ret' = r

\* The call has panicked: nothing runs after it.
Panic ==
    /\ pc' = "panicked"
    /\ UNCHANGED <<locals, ret>>

\* The history at the entry of a call.
Called(name, a) ==
    /\ op' = name
    /\ arg' = a
    /\ pre' = tree
    /\ swaps' = 0

Init ==
    /\ tree = new
    /\ pc = "idle"
    /\ current_index = 0
    /\ parent_idx = 0
    /\ child_idx = 0
    /\ minimum = None
    /\ op = "new"
    /\ arg = None
    /\ pre = <<>>
    /\ ret = None
    /\ swaps = 0
    /\ inserted = EmptyBag
    /\ returned = <<>>

\* size(): reads the length.
size_call ==
    /\ pc = "idle"
    /\ Called("size", None)
    /\ Return(Some(size(tree)))
    /\ UNCHANGED <<tree, inserted, returned>>

\* parent_index(of_index), called on the heap as the crate's tests call it.
parent_index_call(of_index) ==
    /\ pc = "idle"
    /\ Called("parent_index", Some(of_index))
    /\ UNCHANGED <<tree, inserted, returned>>
    /\ \E overflow_checks \in BOOLEAN :
       IF parent_index_aborts(tree, of_index, overflow_checks)
       THEN Panic
       ELSE Return(Some(parent_index(tree, of_index).val))

\* child_index_min(of_index), called on the heap as the crate's tests call it.
child_index_min_call(of_index) ==
    /\ pc = "idle"
    /\ Called("child_index_min", Some(of_index))
    /\ UNCHANGED <<tree, inserted, returned>>
    /\ \E overflow_checks \in BOOLEAN :
       IF child_index_min_aborts(of_index, overflow_checks)
       THEN Panic
       ELSE Return(Some(child_index_min(tree, of_index)))

\* insert(new_node), from its entry to the head of the sift-up loop.
insert(new_node) ==
    /\ pc = "idle"
    /\ Called("insert", Some(new_node))
    /\ inserted' = inserted (+) SetToBag({new_node})
    /\ UNCHANGED returned
    /\ \E overflow_checks \in BOOLEAN :
       LET pushed == Append(tree, new_node)
       IN /\ tree' = pushed
          /\ IF Len(pushed) > 1
             THEN LET parent == parent_index(pushed, Len(pushed) - 1)
                  IN IF parent_index_aborts(pushed, Len(pushed) - 1,
                                            overflow_checks)
                     THEN Panic
                     ELSE /\ pc' = "sift_up"
                          /\ current_index' = Len(pushed) - 1
                          /\ parent_idx' = parent.val
                          /\ UNCHANGED <<child_idx, minimum, ret>>
             ELSE Return(None)

\* A sift-up loop without the break at the root, and one that swaps but
\* does not move on to the parent.
sift_up_step_no_break ==
    /\ pc = "sift_up"
    /\ UNCHANGED <<op, arg, pre, inserted, returned>>
    /\ swaps' = IF /\ InBounds(tree, current_index)
                   /\ InBounds(tree, parent_idx)
                   /\ sift_up_test(tree, current_index, parent_idx)
                THEN swaps + 1
                ELSE swaps
    /\ \E overflow_checks \in BOOLEAN :
       IF ~InBounds(tree, current_index) \/ ~InBounds(tree, parent_idx)
       THEN Panic /\ UNCHANGED tree
       ELSE IF sift_up_test(tree, current_index, parent_idx)
            THEN /\ tree' = swap(tree, current_index, parent_idx)
                 /\ LET parent == parent_index(tree', parent_idx)
                    IN IF parent_index_aborts(tree', parent_idx,
                                              overflow_checks)
                       THEN Panic
                       ELSE /\ pc' = "sift_up"
                            /\ current_index' = parent_idx
                            /\ parent_idx' = parent.val
                            /\ UNCHANGED <<child_idx, minimum, ret>>
            ELSE Return(None) /\ UNCHANGED tree

sift_up_step_stays ==
    /\ pc = "sift_up"
    /\ UNCHANGED <<op, arg, pre, inserted, returned>>
    /\ swaps' = IF /\ InBounds(tree, current_index)
                   /\ InBounds(tree, parent_idx)
                   /\ sift_up_test(tree, current_index, parent_idx)
                THEN swaps + 1
                ELSE swaps
    /\ \E overflow_checks \in BOOLEAN :
       IF ~InBounds(tree, current_index) \/ ~InBounds(tree, parent_idx)
       THEN Panic /\ UNCHANGED tree
       ELSE IF sift_up_test(tree, current_index, parent_idx)
            THEN /\ tree' = swap(tree, current_index, parent_idx)
                 /\ IF parent_idx < 1
                    THEN Return(None)
                    ELSE /\ pc' = "sift_up"
                         /\ UNCHANGED locals
                         /\ UNCHANGED ret
            ELSE Return(None) /\ UNCHANGED tree

\* One evaluation of the sift-up loop's condition, and the loop body.
sift_up_step ==
    /\ pc = "sift_up"
    /\ UNCHANGED <<op, arg, pre, inserted, returned>>
    /\ swaps' = IF /\ InBounds(tree, current_index)
                   /\ InBounds(tree, parent_idx)
                   /\ sift_up_test(tree, current_index, parent_idx)
                THEN swaps + 1
                ELSE swaps
    /\ \E overflow_checks \in BOOLEAN :
       IF ~InBounds(tree, current_index) \/ ~InBounds(tree, parent_idx)
       THEN Panic /\ UNCHANGED tree
       ELSE IF sift_up_test(tree, current_index, parent_idx)
            THEN /\ tree' = swap(tree, current_index, parent_idx)
                 /\ IF parent_idx < 1
                    THEN Return(None)
                    ELSE LET parent == parent_index(tree', parent_idx)
                         IN IF parent_index_aborts(tree', parent_idx,
                                                   overflow_checks)
                            THEN Panic
                            ELSE /\ pc' = "sift_up"
                                 /\ current_index' = parent_idx
                                 /\ parent_idx' = parent.val
                                 /\ UNCHANGED <<child_idx, minimum, ret>>
            ELSE Return(None) /\ UNCHANGED tree

\* An emptiness test that is off by one: None for a tree of one element.
extract_min_empty_off_by_one ==
    /\ pc = "idle"
    /\ Len(tree) < 2
    /\ Called("extract_min", None)
    /\ Return(None)
    /\ returned' = Append(returned, None)
    /\ UNCHANGED <<tree, inserted>>

\* extract_min() on an empty tree.
extract_min_empty ==
    /\ pc = "idle"
    /\ Len(tree) < 1
    /\ Called("extract_min", None)
    /\ Return(None)
    /\ returned' = Append(returned, None)
    /\ UNCHANGED <<tree, inserted>>

\* A one-element branch that returns the element and leaves it in the tree.
extract_min_single_keeps ==
    /\ pc = "idle"
    /\ ~(Len(tree) < 1)
    /\ Len(tree) < 2
    /\ Called("extract_min", None)
    /\ UNCHANGED <<tree, inserted>>
    /\ Return(Some(At(tree, 0)))
    /\ returned' = Append(returned, Some(At(tree, 0)))

\* extract_min() on a tree of one element.
extract_min_single ==
    /\ pc = "idle"
    /\ ~(Len(tree) < 1)
    /\ Len(tree) < 2
    /\ Called("extract_min", None)
    /\ tree' = pop(tree)
    /\ UNCHANGED inserted
    /\ IF popped(tree) = None
       THEN Panic /\ UNCHANGED returned
       ELSE /\ Return(popped(tree))
            /\ returned' = Append(returned, popped(tree))

\* extract_min() on a tree of two elements or more, from its entry to the
\* head of the sift-down loop.
extract_min_root ==
    /\ pc = "idle"
    /\ ~(Len(tree) < 1)
    /\ ~(Len(tree) < 2)
    /\ Called("extract_min", None)
    /\ UNCHANGED inserted
    /\ \E overflow_checks \in BOOLEAN :
       LET last_node_index == Len(tree) - 1
           swapped == swap(tree, 0, last_node_index)
           rest == pop(swapped)
           min == popped(swapped)
       IN /\ tree' = rest
          /\ IF min = None
             THEN Panic /\ UNCHANGED returned
             ELSE IF Len(rest) > 1
                  THEN LET child == child_index_min(rest, 0)
                       IN IF child_index_min_aborts(0, overflow_checks)
                          THEN Panic /\ UNCHANGED returned
                          ELSE IF child = None
                          THEN /\ Return(min)
                               /\ returned' = Append(returned, min)
                          ELSE /\ pc' = "sift_down"
                               /\ current_index' = 0
                               /\ child_idx' = child[1]
                               /\ minimum' = min
                               /\ UNCHANGED <<parent_idx, ret, returned>>
                  ELSE /\ Return(min)
                       /\ returned' = Append(returned, min)

\* One evaluation of the sift-down loop's condition, and the loop body.
sift_down_step ==
    /\ pc = "sift_down"
    /\ UNCHANGED <<op, arg, pre, inserted>>
    /\ swaps' = IF /\ InBounds(tree, current_index)
                   /\ InBounds(tree, child_idx)
                   /\ sift_down_test(tree, current_index, child_idx)
                THEN swaps + 1
                ELSE swaps
    /\ \E overflow_checks \in BOOLEAN :
       IF ~InBounds(tree, current_index) \/ ~InBounds(tree, child_idx)
       THEN Panic /\ UNCHANGED <<tree, returned>>
       ELSE IF sift_down_test(tree, current_index, child_idx)
            THEN /\ tree' = swap(tree, current_index, child_idx)
                 /\ LET child == child_index_min(tree', child_idx)
                    IN IF child_index_min_aborts(child_idx, overflow_checks)
                       THEN Panic /\ UNCHANGED returned
                       ELSE IF child = None
                       THEN /\ Return(minimum)
                            /\ returned' = Append(returned, minimum)
                       ELSE /\ pc' = "sift_down"
                            /\ current_index' = child_idx
                            /\ child_idx' = child[1]
                            /\ UNCHANGED <<parent_idx, minimum, ret, returned>>
            ELSE /\ Return(minimum)
                 /\ returned' = Append(returned, minimum)
                 /\ UNCHANGED tree

extract_min ==
    \/ extract_min_empty
    \/ extract_min_single
    \/ extract_min_root

\* The number of insert and extract_min calls so far.
Calls == BagCardinality(inserted) + Len(returned)

\* A new element of key k, unlike every element inserted before.
Element(k) == [key |-> k, id |-> BagCardinality(inserted) + 1]

Next ==
    \/ \E k \in Values : Calls < MaxOps /\ insert(Element(k))
    \/ Calls < MaxOps /\ extract_min
    \/ size_call
    \/ sift_up_step
    \/ sift_down_step

Spec == Init /\ [][Next]_vars

\* The calls of insert and extract_min alone, each running to its return:
\* the methods are synchronous, nothing suspends a running loop.
NextFair ==
    \/ \E k \in Values : Calls < MaxFairOps /\ insert(Element(k))
    \/ Calls < MaxFairOps /\ extract_min
    \/ sift_up_step
    \/ sift_down_step

FairSpec ==
    /\ Init
    /\ [][NextFair]_vars
    /\ WF_vars(sift_up_step)
    /\ WF_vars(sift_down_step)

\* N inserts into an empty heap, then extract_min N + 1 times in a row.
NextSort ==
    \/ \E k \in Values :
          /\ returned = <<>>
          /\ BagCardinality(inserted) < MaxSortLen
          /\ insert(Element(k))
    \/ Len(returned) <= BagCardinality(inserted) /\ extract_min
    \/ sift_up_step
    \/ sift_down_step

SortSpec == Init /\ [][NextSort]_vars

\* No index helper has been called yet.
NoHelperCalled == op \notin {"parent_index", "child_index_min"}

\* A heap built by inserts and extracts, then one call of an index helper
\* with any usize.
NextHelper ==
    \/ \E k \in Values :
          NoHelperCalled /\ Calls < MaxHelperOps /\ insert(Element(k))
    \/ NoHelperCalled /\ Calls < MaxHelperOps /\ extract_min
    \/ sift_up_step
    \/ sift_down_step
    \/ \E of_index \in Usize : NoHelperCalled /\ parent_index_call(of_index)
    \/ \E of_index \in Usize : NoHelperCalled /\ child_index_min_call(of_index)

HelperSpec == Init /\ [][NextHelper]_vars

\* The keys the crate's tests insert, in their order.
setup == <<16, 14, 10, 8, 7, 9, 3, 2, 4, 1>>

\* The heap of the crate's tests, built insert by insert, then one call of
\* an index helper with any usize.
NextSetup ==
    \/ /\ NoHelperCalled
       /\ BagCardinality(inserted) < Len(setup)
       /\ insert(Element(setup[BagCardinality(inserted) + 1]))
    \/ sift_up_step
    \/ \E of_index \in Usize : NoHelperCalled /\ parent_index_call(of_index)
    \/ \E of_index \in Usize : NoHelperCalled /\ child_index_min_call(of_index)

SetupSpec == Init /\ [][NextSetup]_vars

----------------------------------------------------------------------------
\* Helpers of the properties.

\* The bag of the elements of a sequence.
BagOf(s) ==
    [v \in {s[i] : i \in DOMAIN s} |-> Cardinality({i \in DOMAIN s : s[i] = v})]

\* The values returned by the extract_min calls that returned Some.
ReturnedValues ==
    LET RECURSIVE Vals(_)
        Vals(s) == IF s = <<>> THEN <<>>
                   ELSE (IF Head(s) = None THEN <<>> ELSE <<Head(s)[1]>>)
                        \o Vals(Tail(s))
    IN Vals(returned)

\* The heap-order relation on a Vec, stated on the indices alone.
HeapOrdered(t) ==
    \A i \in 1..(Len(t) - 1) : le(At(t, (i - 1) \div 2), At(t, i))

\* A call has returned (none is running, none has panicked).
Returned(name) == pc = "idle" /\ op = name

\* C1: whenever no call is running, every element at an index i >= 1 is at
\* least the element at index floor((i - 1) / 2).
C1_HeapOrder == pc = "idle" => HeapOrdered(tree)

\* An extract_min has returned from a tree of five elements or more (a
\* sift-down of up to two levels) and left a tree in heap order.
C1_Witness ==
    /\ Returned("extract_min")
    /\ Len(pre) >= 5
    /\ tree # pop(pre)
    /\ At(tree, 1).key # At(tree, 2).key
    /\ HeapOrdered(tree)

\* C2: an extract_min on a non-empty tree returns the element that was at
\* index 0, and that value is at most every element stored before the call
\* and at most every element left after it.
C2_MinReturned ==
    (Returned("extract_min") /\ pre # <<>>) =>
        /\ ret = Some(At(pre, 0))
        /\ \A i \in 0..(Len(pre) - 1) : le(ret[1], At(pre, i))
        /\ \A i \in 0..(Len(tree) - 1) : le(ret[1], At(tree, i))

\* An extract_min has returned the minimum of a tree that held three
\* different values.
C2_Witness ==
    /\ Returned("extract_min")
    /\ Len(pre) >= 4
    /\ Cardinality({pre[i].key : i \in DOMAIN pre}) >= 3
    /\ ret = Some(At(pre, 0))

\* The sorted order of a bag of elements: their keys, one for each
\* occurrence of an element, smallest first.
RECURSIVE SortedOf(_)
SortedOf(b) ==
    IF BagToSet(b) = {} THEN <<>>
    ELSE LET m == CHOOSE x \in BagToSet(b) : \A y \in BagToSet(b) : le(x, y)
         IN <<m.key>> \o SortedOf(b (-) SetToBag({m}))

\* C3: after N inserts into an empty heap, in any order, the k-th of the
\* following extract_min calls returns an element whose key is the k-th of
\* the sorted order of the inserted multiset, so the returns are
\* non-decreasing; the N returned elements are the inserted ones, each as
\* often as it was inserted; and call N + 1 returns None.
C3_SortedOutput ==
    LET N == BagCardinality(inserted)
        sorted == SortedOf(inserted)
    IN /\ \A k \in 1..Len(returned) :
             IF k <= N
             THEN returned[k] # None /\ returned[k][1].key = sorted[k]
             ELSE returned[k] = None
       /\ \A j, k \in 1..Len(returned) :
             (j < k /\ k <= N) => le(returned[j][1], returned[k][1])
       /\ BagOf(ReturnedValues) \sqsubseteq inserted
       /\ (Len(returned) >= N => BagOf(ReturnedValues) = inserted)

\* Seven elements or more, of three different values, have been inserted
\* and N + 1 calls of extract_min have returned, the last one None.
C3_Witness ==
    /\ pc = "idle"
    /\ BagCardinality(inserted) >= 7
    /\ Cardinality({e.key : e \in BagToSet(inserted)}) = 3
    /\ Len(returned) = BagCardinality(inserted) + 1
    /\ returned[Len(returned)] = None

\* C4: size() is 0 for new(), one more after every insert, one less after
\* every extract_min that returned an element, and a size() call returns
\* the length and leaves the tree as it was.
C4_SizeAccounting ==
    /\ (op = "new" => size(tree) = 0)
    /\ (Returned("insert") => size(tree) = size(pre) + 1)
    /\ ((Returned("extract_min") /\ ret # None) => size(tree) = size(pre) - 1)
    /\ (Returned("size") => (tree = pre /\ ret = Some(size(pre))))

\* A size() call has returned 3 after inserts and an extract_min that
\* returned an element.
C4_Witness ==
    /\ Returned("size")
    /\ ret = Some(3)
    /\ BagCardinality(inserted) = 5
    /\ Len(ReturnedValues) = 2

\* C5: extract_min returns None exactly when the tree is empty at the call,
\* and then leaves it as new() makes it: empty, of size 0.
C5_EmptyBehaviour ==
    Returned("extract_min") =>
        /\ (ret = None <=> pre = <<>>)
        /\ (ret = None => (tree = pre /\ tree = new /\ size(tree) = 0))

\* An extract_min has returned None on a heap that had held elements, all
\* extracted before.
C5_Witness ==
    /\ Returned("extract_min")
    /\ ret = None
    /\ BagCardinality(inserted) >= 2
    /\ Len(ReturnedValues) = BagCardinality(inserted)

\* C6: no call panics: parent_index is never called with 0 or with an
\* index >= size(), every position a loop is about to read or swap is a
\* position of the Vec, and no pop is unwrapped on an empty Vec.
C6_NoPanic ==
    /\ pc # "panicked"
    /\ (pc = "sift_up" =>
            /\ current_index >= 1
            /\ InBounds(tree, current_index)
            /\ InBounds(tree, parent_idx))
    /\ (pc = "sift_down" =>
            /\ InBounds(tree, current_index)
            /\ InBounds(tree, child_idx))

\* An insert has returned after sifting its element from index 3 or beyond
\* up to the root, where the loop must stop before asking for the parent
\* of index 0.
C6_Witness ==
    /\ Returned("insert")
    /\ Len(pre) >= 3
    /\ gt(At(pre, 0), arg[1])
    /\ At(tree, 0) = arg[1]

\* The sift-up loop strictly decreases the current index while it runs.
C7_SiftUpDecreases ==
    (pc = "sift_up" /\ pc' = "sift_up") =>
        (current_index' < current_index /\ current_index' >= 0)

\* The sift-down loop strictly increases the current index while it runs,
\* within the Vec.
C7_SiftDownIncreases ==
    (pc = "sift_down" /\ pc' = "sift_down") =>
        (current_index' > current_index /\ current_index' < Len(tree'))

\* C7: every call of insert and of extract_min returns; until then each
\* round of the sift-up loop strictly decreases the current index and each
\* round of the sift-down loop strictly increases it.
C7_Termination ==
    /\ [][C7_SiftUpDecreases]_vars
    /\ [][C7_SiftDownIncreases]_vars
    /\ (pc # "idle") ~> (pc = "idle")

\* A sift-up that started at index 5 has gone one round and is still
\* running, at index 2.
C7_Witness ==
    /\ pc = "sift_up"
    /\ Len(tree) = 6
    /\ current_index = 2

\* C8: whenever no call is running, the stored elements are, as a bag, the
\* inserted ones without the returned ones; an insert adds one occurrence
\* of its argument and an extract_min that returns an element removes one
\* occurrence of it, every other element staying as often as it was.
C8_Conservation ==
    pc = "idle" =>
        /\ BagOf(tree) (+) BagOf(ReturnedValues) = inserted
        /\ BagOf(tree) = inserted (-) BagOf(ReturnedValues)
        /\ (op = "insert" => BagOf(tree) = BagOf(pre) (+) SetToBag({arg[1]}))
        /\ ((op = "extract_min" /\ ret # None) =>
                BagOf(pre) = BagOf(tree) (+) SetToBag({ret[1]}))

\* An extract_min that swapped during its sift-down has returned, from a
\* tree holding a duplicate, after an earlier extract_min.
C8_Witness ==
    /\ Returned("extract_min")
    /\ Len(ReturnedValues) >= 2
    /\ Len(pre) >= 4
    /\ Cardinality({pre[i].key : i \in DOMAIN pre}) < Len(pre)
    /\ tree # pop(swap(pre, 0, Len(pre) - 1))

\* The children of index i that exist in Vec t.
ChildrenOf(t, i) == {j \in {2 * i + 1, 2 * i + 2} : j < Len(t)}

\* At the head of the sift-down loop the node at current_index is about to
\* be compared with one of its existing children, one whose value is at most
\* the value of every existing child.
C9_SmallerChild ==
    pc = "sift_down" =>
        /\ child_idx \in ChildrenOf(tree, current_index)
        /\ \A j \in ChildrenOf(tree, current_index) :
              le(At(tree, child_idx), At(tree, j))

\* The entry of extract_min on two elements or more moves the last element
\* to index 0 and shortens the Vec by one, and starts at the root.
C9_Entry ==
    (pc = "idle" /\ op' = "extract_min" /\ Len(tree) >= 2) =>
        /\ tree' = <<tree[Len(tree)]>> \o SubSeq(tree, 2, Len(tree) - 1)
        /\ (pc' = "sift_down" => current_index' = 0)
        /\ (pc' = "idle" <=> ChildrenOf(tree', 0) = {})

\* A round of the sift-down loop swaps the current node with that child
\* only when it is strictly greater and goes on from the child's position;
\* the loop stops at the first node that is not greater than the child or
\* that has no child.
C9_Round ==
    pc = "sift_down" =>
        IF gt(At(tree, current_index), At(tree, child_idx))
        THEN /\ tree' = swap(tree, current_index, child_idx)
             /\ (pc' = "sift_down" => current_index' = child_idx)
             /\ (pc' = "idle" <=> ChildrenOf(tree', child_idx) = {})
             /\ pc' \in {"sift_down", "idle"}
        ELSE tree' = tree /\ pc' = "idle"

\* C9: extract_min on two elements or more first moves the last element to
\* index 0 and shortens the Vec; then every sift-down round compares the
\* current node with a child that is at most the other existing child,
\* swaps only when the current node is strictly greater, and the loop stops
\* at the first node with no child or not greater than that child.
C9_SiftDown ==
    /\ []C9_SmallerChild
    /\ [][C9_Entry]_vars
    /\ [][C9_Round]_vars

\* The sift-down loop stands at index 1 after one swap, the left child of
\* index 1 being strictly greater than the right one.
C9_Witness ==
    /\ pc = "sift_down"
    /\ current_index = 1
    /\ Len(tree) >= 5
    /\ gt(At(tree, 3), At(tree, 4))
    /\ child_idx = 4

\* At the head of the sift-up loop the inserted element is at current_index
\* and is about to be compared with the node at floor((current_index - 1) / 2).
C10_AtLoopHead ==
    pc = "sift_up" =>
        /\ current_index >= 1
        /\ At(tree, current_index) = arg[1]
        /\ parent_idx = (current_index - 1) \div 2

\* An insert whose argument is at least the element at the parent of the
\* new leaf leaves every stored element at its index and the new element at
\* the last index.
C10_NoMove ==
    (Returned("insert") /\ pre # <<>>
        /\ le(At(pre, (Len(pre) - 1) \div 2), arg[1])) =>
        tree = Append(pre, arg[1])

\* The entry of insert appends the element at index size().
C10_Entry ==
    (pc = "idle" /\ op' = "insert") =>
        /\ tree' = Append(tree, arg'[1])
        /\ (pc' = "sift_up" => current_index' = size(tree))
        /\ (pc' = "idle" <=> tree = <<>>)

\* A round of the sift-up loop swaps the element with its parent only when
\* it is strictly less, and stops when it is not or when the parent was
\* index 0.
C10_Round ==
    pc = "sift_up" =>
        IF lt(At(tree, current_index), At(tree, parent_idx))
        THEN /\ tree' = swap(tree, current_index, parent_idx)
             /\ (pc' = "sift_up" => current_index' = parent_idx)
             /\ (pc' = "idle" <=> parent_idx = 0)
             /\ pc' \in {"sift_up", "idle"}
        ELSE tree' = tree /\ pc' = "idle"

\* C10: insert appends the element at index size() and swaps it with its
\* parent only while it is strictly less than the parent, stopping at index
\* 0; when the element is at least the element at the parent of the new
\* leaf, the stored elements keep their indices and it stays last.
C10_SiftUpStrict ==
    /\ []C10_AtLoopHead
    /\ []C10_NoMove
    /\ [][C10_Entry]_vars
    /\ [][C10_Round]_vars

\* An insert of an element equal to the element at the parent of the new
\* leaf, both greater than the root, has returned without moving anything.
C10_Witness ==
    /\ Returned("insert")
    /\ Len(pre) >= 3
    /\ cmp(arg[1], At(pre, (Len(pre) - 1) \div 2)) = "Equal"
    /\ gt(arg[1], At(pre, 0))
    /\ tree = Append(pre, arg[1])

\* C11: child_index_min(i), for an index i of the heap, returns None exactly
\* when 2i + 1 >= size, the left child 2i + 1 when it alone exists, and with
\* both children the left one if its element is strictly less and the right
\* one otherwise (ties go right); the child returned is at most its sibling.
C11_ChildIndexMin ==
    (op = "child_index_min" /\ arg[1] < size(pre)) =>
        /\ pc = "idle"
        /\ tree = pre
        /\ LET i == arg[1]
               n == size(tree)
               r == ret[1]
           IN /\ (r = None <=> 2 * i + 1 >= n)
              /\ ((2 * i + 1 < n /\ n <= 2 * i + 2) => r = Some(2 * i + 1))
              /\ (2 * i + 2 < n =>
                    r = IF lt(At(tree, 2 * i + 1), At(tree, 2 * i + 2))
                        THEN Some(2 * i + 1)
                        ELSE Some(2 * i + 2))
              /\ (r # None =>
                    \A j \in ChildrenOf(tree, i) :
                        le(At(tree, r[1]), At(tree, j)))

\* child_index_min(0) has returned the right child of a root whose two
\* children compare equal.
C11_Witness ==
    /\ Returned("child_index_min")
    /\ arg = Some(0)
    /\ size(tree) >= 3
    /\ cmp(At(tree, 1), At(tree, 2)) = "Equal"
    /\ ret = Some(Some(2))

\* C12: parent_index(i), for 1 <= i < size(), returns (i - 1) / 2 for an odd
\* i and (i - 2) / 2 for an even i, which is floor((i - 1) / 2) and is less
\* than i; its subtraction does not go below zero (it neither panics nor
\* wraps).
C12_ParentIndex ==
    (op = "parent_index" /\ 1 <= arg[1] /\ arg[1] < size(pre)) =>
        /\ pc = "idle"
        /\ tree = pre
        /\ LET i == arg[1]
           IN /\ ret = Some(IF i % 2 = 0 THEN (i - 2) \div 2 ELSE (i - 1) \div 2)
              /\ ret[1] = (i - 1) \div 2
              /\ ret[1] < i
              /\ (IF i % 2 = 0 THEN i - 2 ELSE i - 1) >= 0

\* parent_index(8) has returned 3 on the heap of ten elements.
C12_Witness ==
    /\ Returned("parent_index")
    /\ size(tree) = 10
    /\ arg = Some(8)
    /\ ret = Some(3)

\* C13: parent_index(i) panics exactly when i < 1 or i >= size(), on a heap
\* of any size, the empty one included, and returns otherwise.
C13_ParentIndexPanics ==
    op = "parent_index" =>
        /\ pc \in {"idle", "panicked"}
        /\ (pc = "panicked" <=> (arg[1] < 1 \/ arg[1] >= size(pre)))

\* parent_index(size()) has panicked on the heap of ten elements, and
\* parent_index(0) on the empty heap.
C13_Witness ==
    /\ op = "parent_index"
    /\ pc = "panicked"
    /\ \/ size(pre) = 10 /\ arg = Some(10)
       \/ size(pre) = 0 /\ arg = Some(0)

\* floor(log2(n)) for n >= 1.
RECURSIVE Log2(_)
Log2(n) == IF n <= 1 THEN 0 ELSE 1 + Log2(n \div 2)

\* The tree level of index i: the root is at level 0.
Level(i) == Log2(i + 1)

\* The swaps of a call so far are at most floor(log2(n)) for an insert, n
\* the size after it, and at most floor(log2(m)) for the sift-down of an
\* extract_min, m the size after the removal.
C14_AtMostLog ==
    /\ (op = "insert" => swaps <= Log2(size(pre) + 1))
    /\ ((op = "extract_min" /\ size(pre) >= 2) => swaps <= Log2(size(pre) - 1))
    /\ ((op = "extract_min" /\ size(pre) < 2) => swaps = 0)

\* A round of a sift loop counts a swap exactly when it changes the tree,
\* and then the element it moves goes one level up (sift-up) or one level
\* down (sift-down).
C14_OneLevel ==
    /\ (pc = "sift_up" =>
            IF tree' # tree
            THEN /\ swaps' = swaps + 1
                 /\ \E j \in 0..(Len(tree) - 1) :
                        /\ At(tree', j) = At(tree, current_index)
                        /\ Level(j) = Level(current_index) - 1
            ELSE swaps' = swaps)
    /\ (pc = "sift_down" =>
            IF tree' # tree
            THEN /\ swaps' = swaps + 1
                 /\ \E j \in 0..(Len(tree) - 1) :
                        /\ At(tree', j) = At(tree, current_index)
                        /\ Level(j) = Level(current_index) + 1
            ELSE swaps' = swaps)

\* C14: an insert makes at most floor(log2(n)) swaps, n the size after it;
\* the sift-down of an extract_min makes at most floor(log2(m)) swaps, m the
\* size after the removal; each swap moves the element one tree level.
C14_LogSwaps ==
    /\ []C14_AtMostLog
    /\ [][C14_OneLevel]_vars

\* An insert as the seventh element has returned after floor(log2(7)) = 2
\* swaps.
C14_Witness ==
    /\ Returned("insert")
    /\ size(tree) = 7
    /\ swaps = 2

\* C15: on the heap built by inserting 16, 14, 10, 8, 7, 9, 3, 2, 4, 1,
\* child_index_min returns 9 for index 4, 8 for 3, 6 for 2, 4 for 1, 1 for
\* 0, and None for each of the indices 5 to 9.
C15_SetupChildren ==
    (op = "child_index_min" /\ size(pre) = Len(setup) /\ arg[1] <= 9) =>
        /\ pc = "idle"
        /\ size(pre) = 10
        /\ ret = Some(CASE arg[1] = 4 -> Some(9)
                        [] arg[1] = 3 -> Some(8)
                        [] arg[1] = 2 -> Some(6)
                        [] arg[1] = 1 -> Some(4)
                        [] arg[1] = 0 -> Some(1)
                        [] OTHER -> None)

\* child_index_min(3) has returned 8 on the heap of the ten elements.
C15_Witness ==
    /\ Returned("child_index_min")
    /\ size(tree) = 10
    /\ arg = Some(3)
    /\ ret = Some(Some(8))

\* C16: while an insert runs its sift-up loop (after the append and after
\* each swap), the inserted element is at current_index and every index
\* j >= 1 other than current_index holds an element at least the one at its
\* parent.
C16_SiftUpInvariant ==
    pc = "sift_up" =>
        /\ At(tree, current_index) = arg[1]
        /\ \A j \in 1..(Len(tree) - 1) :
              j # current_index => le(At(tree, (j - 1) \div 2), At(tree, j))

\* The sift-up loop stands at index 1 or 2 after a swap, the inserted
\* element being less than the root: that pair alone is out of order.
C16_Witness ==
    /\ pc = "sift_up"
    /\ current_index \in {1, 2}
    /\ Len(tree) >= 6
    /\ lt(At(tree, current_index), At(tree, 0))

\* C17: while an extract_min runs its sift-down loop (after the last
\* element has moved to index 0 and after each swap), every index j >= 1
\* whose parent is not current_index holds an element at least the one at
\* its parent.
C17_SiftDownInvariant ==
    pc = "sift_down" =>
        \A j \in 1..(Len(tree) - 1) :
            (j - 1) \div 2 # current_index =>
                le(At(tree, (j - 1) \div 2), At(tree, j))

\* The sift-down loop stands at index 1 after a swap, the element there
\* being greater than its smaller child: that pair is out of order.
C17_Witness ==
    /\ pc = "sift_down"
    /\ current_index = 1
    /\ gt(At(tree, 1), At(tree, child_idx))

\* C18: child_index_min never fails, for any usize: it returns, and returns
\* None whenever 2i + 1 >= size.
C18_NeverFails ==
    op = "child_index_min" =>
        /\ pc = "idle"
        /\ (2 * arg[1] + 1 >= size(pre) => ret = Some(None))

====
